---- MODULE Spec2Model ----
(***************************************************************************)
(* A model of pkg/proxy/parser/parser.go: the RESP decoder (Parse,         *)
(* ReadBulk, readLine), the integer codec (Btoi, Itoa), the key-extraction *)
(* helpers (Op, Keys, Key, defaultGetKeys, thridAsKey) and the encoder     *)
(* (Bytes).                                                                *)
(*                                                                         *)
(* Bytes are modelled as their numeric values (0..255) and a []byte or a   *)
(* string as a sequence of them.  A *Resp is a record [Type, Raw, Multi];  *)
(* a nil Multi and an empty Multi are both the empty sequence (the code    *)
(* only ever takes len() of it or ranges over it).  An error value is a    *)
(* string naming where it was created; "nil" is the nil error.             *)
(***************************************************************************)
EXTENDS Integers, Sequences, FiniteSets, TLC

\* ------------------------------------------------------------------------
\* Bounds of the model
\* ------------------------------------------------------------------------
MaxDigits  == 3   \* longest byte string handed to Btoi in SpecBtoi
MaxPayload == 2   \* longest bulk payload of a generated RESP message
MaxMsgs    == 2   \* most messages concatenated on one stream
MaxKids    == 2   \* most children of a generated array
MaxArgs    == 2   \* most arguments after the command name (default strategy)
MaxTail    == 3   \* most bytes following a bulk payload in SpecBulk
MaxTokens  == 2   \* most tokens of a generated inline command line
MaxGap     == 2   \* most spaces between two tokens of an inline line
MaxKeys    == 3   \* most children after the numKeys child, third-argument commands

\* ------------------------------------------------------------------------
\* Program constants
\* ------------------------------------------------------------------------
ErrorResp    == 0
SimpleString == 1
IntegerResp  == 2
BulkResp     == 3
MultiResp    == 4
NoKey        == 5

CR == 13
LF == 10
NEW_LINE == <<CR, LF>>

fakeKey == <<102, 97, 107, 101, 75, 101, 121>>                        \* "fakeKey"

ZINTERSTORE == <<90, 73, 78, 84, 69, 82, 83, 84, 79, 82, 69>>
ZUNIONSTORE == <<90, 85, 78, 73, 79, 78, 83, 84, 79, 82, 69>>
EVAL        == <<69, 86, 65, 76>>
EVALSHA     == <<69, 86, 65, 76, 83, 72, 65>>
thridAsKeyTbl == {ZINTERSTORE, ZUNIONSTORE, EVAL, EVALSHA}

\* The errors the package creates or passes on (errors.Trace keeps the cause).
ErrNil           == "nil"
ErrEOF           == "io.EOF"                  \* bufio ReadBytes at end of stream
ErrUnexpectedEOF == "io.ErrUnexpectedEOF"     \* io.ReadFull after a partial read
ErrPacket        == "invalid redis packet"    \* readLine
ErrNumber        == "Invalid number"          \* Btoi
ErrJust0         == "should be just 0"        \* ReadBulk
ErrProtocol      == "redis protocol error"    \* Parse
ErrInvalidResp   == "invalid resp"            \* Op, defaultGetKeys

NoResp == [Type |-> -1, Raw |-> <<>>, Multi |-> <<>>]   \* the nil *Resp

\* ------------------------------------------------------------------------
\* Library routines the package calls
\* ------------------------------------------------------------------------
\* bytes.IndexByte: the 0-based index of the first c in b, -1 if there is none.
RECURSIVE IndexFrom(_, _, _)
IndexFrom(b, c, i) ==
  IF i > Len(b) THEN -1
  ELSE IF b[i] = c THEN i - 1
  ELSE IndexFrom(b, c, i + 1)

IndexByte(b, c) == IndexFrom(b, c, 1)

\* The Go slice b[lo:hi] (0-based, hi exclusive).
Slice(b, lo, hi) == SubSeq(b, lo + 1, hi)

\* strconv.Itoa: the decimal text of an integer.
RECURSIVE Digits(_)
Digits(n) ==
  IF n < 10 THEN <<48 + n>>
  ELSE Append(Digits(n \div 10), 48 + (n % 10))

strconvItoa(i) == IF i < 0 THEN <<45>> \o Digits(-i) ELSE Digits(i)

\* strings.Split(s, " "): the pieces between every two separators, empty
\* pieces included; n separators give n+1 pieces.
RECURSIVE Split(_, _)
Split(s, sep) ==
  LET k == IndexByte(s, sep) IN
  IF k < 0 THEN <<s>>
  ELSE <<Slice(s, 0, k)>> \o Split(Slice(s, k + 1, Len(s)), sep)

\* unicode.IsSpace on the ASCII range: \t \n \v \f \r and space.
IsSpace(c) == c \in {9, 10, 11, 12, 13, 32}

\* strings.TrimSpace: drops leading and trailing white space.
RECURSIVE TrimLeft(_)
TrimLeft(s) ==
  IF Len(s) > 0 /\ IsSpace(s[1]) THEN TrimLeft(Tail(s)) ELSE s

RECURSIVE TrimRight(_)
TrimRight(s) ==
  IF Len(s) > 0 /\ IsSpace(s[Len(s)])
  THEN TrimRight(SubSeq(s, 1, Len(s) - 1)) ELSE s

TrimSpace(s) == TrimRight(TrimLeft(s))

\* respcoding.Marshal (github.com/ngaut/resp, not part of this package) of a
\* string: its RESP bulk encoding $<len>\r\n<bytes>\r\n; Parse stores the
\* result as the Raw of a BulkResp node.
Marshal(str) ==
  <<36>> \o strconvItoa(Len(str)) \o NEW_LINE \o str \o NEW_LINE

\* ------------------------------------------------------------------------
\* Integer codec
\* ------------------------------------------------------------------------
\* Itoa: values below 10000 come from the intBuffer cache, which init()
\* fills with strconv.Itoa(i).
Itoa(i) == strconvItoa(i)

\* Btoi.  The loop index is a uint8 and so is the bound it is compared
\* with: the loop runs over the first len(b) mod 256 bytes.  A byte passes
\* the digit test when b[i] >= 0 && b[i] <= '9'.  Go's int is 64 bits wide;
\* the inputs of this model are short enough that n never overflows.
RECURSIVE BtoiLoop(_, _, _, _)
BtoiLoop(b, i, n, sign) ==
  IF i >= Len(b) % 256 THEN [val |-> sign * n, err |-> ErrNil]
  ELSE IF i = 0 /\ b[i + 1] = 45
    THEN IF Len(b) = 1 THEN [val |-> 0, err |-> ErrNumber]
         ELSE BtoiLoop(b, i + 1, n, -1)
  ELSE IF b[i + 1] >= 0 /\ b[i + 1] <= 57
    THEN BtoiLoop(b, i + 1, (IF i > 0 THEN n * 10 ELSE n) + (b[i + 1] - 48), sign)
  ELSE [val |-> 0, err |-> ErrNumber]

Btoi(b) == BtoiLoop(b, 0, 0, 1)

\* ------------------------------------------------------------------------
\* Line reader
\* ------------------------------------------------------------------------
\* readLine on a reader holding s: bufio's ReadBytes('\n') returns the bytes
\* up to and including the first '\n', or everything left and io.EOF.
readLine(s) ==
  LET k == IndexByte(s, LF) IN
  IF k < 0 THEN [line |-> <<>>, err |-> ErrEOF, rest |-> <<>>]
  ELSE LET line == Slice(s, 0, k + 1)
           rest == Slice(s, k + 1, Len(s)) IN
       IF Len(line) < 2 \/ line[Len(line) - 1] # CR
       THEN [line |-> <<>>, err |-> ErrPacket, rest |-> rest]
       ELSE [line |-> line, err |-> ErrNil, rest |-> rest]

IsLetter(c) == (c >= 97 /\ c <= 122) \/ (c >= 65 /\ c <= 90)

\* ------------------------------------------------------------------------
\* Decoder
\* ------------------------------------------------------------------------
\* ReadBulk that forgets to append the terminator line to raw.
ReadBulkDropsTerminator(s, size, raw) ==
  IF size < 0 THEN [raw |-> raw, err |-> ErrNil, rest |-> s]
  ELSE IF Len(s) < size
    THEN [raw |-> raw, rest |-> <<>>,
          err |-> IF Len(s) = 0 THEN ErrEOF ELSE ErrUnexpectedEOF]
  ELSE LET buf == Slice(s, 0, size)
           l   == readLine(Slice(s, size, Len(s))) IN
       IF l.err # ErrNil
       THEN [raw |-> raw \o buf, err |-> l.err, rest |-> l.rest]
       ELSE IF Len(l.line) # 2
       THEN [raw |-> raw \o buf, err |-> ErrJust0, rest |-> l.rest]
       ELSE [raw |-> raw \o buf, err |-> ErrNil, rest |-> l.rest]

\* ReadBulk that reads the payload as a line instead of size bytes.
ReadBulkByLine(s, size, raw) ==
  IF size < 0 THEN [raw |-> raw, err |-> ErrNil, rest |-> s]
  ELSE LET l == readLine(s) IN
       IF l.err # ErrNil
       THEN [raw |-> raw, err |-> l.err, rest |-> l.rest]
       ELSE IF Len(l.line) # size + 2
       THEN [raw |-> raw \o l.line, err |-> ErrJust0, rest |-> l.rest]
       ELSE [raw |-> raw \o l.line, err |-> ErrNil, rest |-> l.rest]

\* ReadBulk on a reader holding s, with raw the header line read so far.
ReadBulk(s, size, raw) ==
  IF size < 0 THEN [raw |-> raw, err |-> ErrNil, rest |-> s]
  ELSE IF Len(s) < size
    THEN [raw |-> raw, rest |-> <<>>,
          err |-> IF Len(s) = 0 THEN ErrEOF ELSE ErrUnexpectedEOF]
  ELSE LET buf == Slice(s, 0, size)
           l   == readLine(Slice(s, size, Len(s))) IN
       IF l.err # ErrNil
       THEN [raw |-> raw \o buf, err |-> l.err, rest |-> l.rest]
       ELSE IF Len(l.line) # 2
       THEN [raw |-> raw \o buf \o l.line, err |-> ErrJust0, rest |-> l.rest]
       ELSE [raw |-> raw \o buf \o l.line, err |-> ErrNil, rest |-> l.rest]

\* The inline loop without TrimSpace: the last token keeps its \r\n.
RECURSIVE InlineMultiNoTrim(_, _)
InlineMultiNoTrim(strs, i) ==
  IF i > Len(strs) THEN <<>>
  ELSE (IF Len(strs[i]) > 0
        THEN <<[Type |-> BulkResp, Raw |-> Marshal(strs[i]), Multi |-> <<>>]>>
        ELSE <<>>) \o InlineMultiNoTrim(strs, i + 1)

\* The default branch of Parse: a telnet (inline) command line.
RECURSIVE InlineMulti(_, _)
InlineMulti(strs, i) ==
  IF i > Len(strs) THEN <<>>
  ELSE LET str == TrimSpace(strs[i]) IN
       (IF Len(str) > 0
        THEN <<[Type |-> BulkResp, Raw |-> Marshal(str), Multi |-> <<>>]>>
        ELSE <<>>) \o InlineMulti(strs, i + 1)

ParseInline(line) ==
  LET strs == Split(line, 32) IN
  [Type  |-> MultiResp,
   Raw   |-> <<42>> \o strconvItoa(Len(strs)) \o NEW_LINE,
   Multi |-> InlineMulti(strs, 1)]

Fail(e, rest) == [resp |-> NoResp, err |-> e, rest |-> rest]

Leaf(t, line, rest) ==
  [resp |-> [Type |-> t, Raw |-> line, Multi |-> <<>>], err |-> ErrNil, rest |-> rest]

RECURSIVE Parse(_)
RECURSIVE ParseMulti(_, _, _)

\* The loop of the '*' branch: j children still to read, multi read so far.
ParseMulti(s, j, multi) ==
  IF j = 0 THEN [multi |-> multi, err |-> ErrNil, rest |-> s]
  ELSE LET rp == Parse(s) IN
       IF rp.err # ErrNil THEN [multi |-> <<>>, err |-> rp.err, rest |-> rp.rest]
       ELSE ParseMulti(rp.rest, j - 1, Append(multi, rp.resp))

\* Parse on a reader holding s: the node returned (NoResp with an error),
\* the error, and what the reader still holds.
Parse(s) ==
  LET l == readLine(s) IN
  IF l.err # ErrNil THEN Fail(l.err, l.rest)
  ELSE LET line == l.line
           num  == Btoi(Slice(line, 1, Len(line) - 2)) IN
    CASE line[1] = 45 -> Leaf(ErrorResp, line, l.rest)
      [] line[1] = 43 -> Leaf(SimpleString, line, l.rest)
      [] line[1] = 58 -> Leaf(IntegerResp, line, l.rest)
      [] line[1] = 36 ->
           IF num.err # ErrNil THEN Fail(num.err, l.rest)
           ELSE LET rb == ReadBulk(l.rest, num.val, line) IN
                IF rb.err # ErrNil THEN Fail(rb.err, rb.rest)
                ELSE Leaf(BulkResp, rb.raw, rb.rest)
      [] line[1] = 42 ->
           IF num.err # ErrNil THEN Fail(num.err, l.rest)
           ELSE IF num.val >= 0
             THEN LET pm == ParseMulti(l.rest, num.val, <<>>) IN
                  IF pm.err # ErrNil THEN Fail(pm.err, pm.rest)
                  ELSE [resp |-> [Type |-> MultiResp, Raw |-> line, Multi |-> pm.multi],
                        err |-> ErrNil, rest |-> pm.rest]
             ELSE Leaf(MultiResp, line, l.rest)
      [] OTHER ->
           IF ~IsLetter(line[1]) THEN Fail(ErrProtocol, l.rest)
           ELSE [resp |-> ParseInline(line), err |-> ErrNil, rest |-> l.rest]

\* ------------------------------------------------------------------------
\* Key extraction
\* ------------------------------------------------------------------------
\* raw2Bulk: r.Raw[1 : len(r.Raw)-2].  Every Raw that Parse builds ends in
\* \r\n and has at least three bytes, so the slice expression never panics.
raw2Bulk(r) == Slice(r.Raw, 1, Len(r.Raw) - 2)

Op(r) ==
  IF Len(r.Multi) > 0
  THEN LET op       == raw2Bulk(r.Multi[1])
           startPos == IndexByte(op, LF) IN
       IF startPos < 0 THEN [val |-> <<>>, err |-> ErrInvalidResp]
       ELSE [val |-> Slice(op, startPos + 1, Len(op)), err |-> ErrNil]
  ELSE [val |-> <<>>, err |-> ErrInvalidResp]

\* defaultGetKeys' loop without the second extraction step: the header
\* remnant stays in front of the payload.
RECURSIVE defaultLoopNaive(_, _, _)
defaultLoopNaive(r, i, keys) ==
  IF i > Len(r.Multi) THEN [val |-> keys, err |-> ErrNil]
  ELSE defaultLoopNaive(r, i + 1, Append(keys, raw2Bulk(r.Multi[i])))

\* The loop of defaultGetKeys over r.Multi[1:], from the (1-based) child i.
RECURSIVE defaultLoop(_, _, _)
defaultLoop(r, i, keys) ==
  IF i > Len(r.Multi) THEN [val |-> keys, err |-> ErrNil]
  ELSE LET key      == raw2Bulk(r.Multi[i])
           startPos == IndexByte(key, LF) IN
       IF startPos < 0 THEN [val |-> <<>>, err |-> ErrInvalidResp]
       ELSE defaultLoop(r, i + 1, Append(keys, Slice(key, startPos + 1, Len(key))))

defaultGetKeys(r) ==
  IF Len(r.Multi) - 1 = 0 THEN [val |-> <<>>, err |-> ErrNil]
  ELSE defaultLoop(r, 2, <<>>)

\* The loop of thridAsKey over r.Multi[3:], from the (1-based) child i.
RECURSIVE thridLoop(_, _, _, _)
thridLoop(r, i, numKeys, keys) ==
  IF i > Len(r.Multi) THEN keys
  ELSE LET ks == Append(keys, raw2Bulk(r.Multi[i])) IN
       IF Len(ks) = numKeys THEN ks
       ELSE thridLoop(r, i + 1, numKeys, ks)

\* thridAsKey that short-circuits below 3 children instead of below 4.
thridAsKeyBelow3(r) ==
  IF Len(r.Multi) < 3 THEN [val |-> <<fakeKey>>, err |-> ErrNil]
  ELSE LET numKeys == Btoi(raw2Bulk(r.Multi[3])) IN
       IF numKeys.err # ErrNil THEN [val |-> <<>>, err |-> numKeys.err]
       ELSE [val |-> thridLoop(r, 4, numKeys.val, <<>>), err |-> ErrNil]

thridAsKey(r) ==
  IF Len(r.Multi) < 4 THEN [val |-> <<fakeKey>>, err |-> ErrNil]
  ELSE LET numKeys == Btoi(raw2Bulk(r.Multi[3])) IN
       IF numKeys.err # ErrNil THEN [val |-> <<>>, err |-> numKeys.err]
       ELSE [val |-> thridLoop(r, 4, numKeys.val, <<>>), err |-> ErrNil]

Keys(r) ==
  LET key == Op(r) IN
  IF key.err # ErrNil THEN [val |-> <<>>, err |-> key.err]
  ELSE IF key.val \notin thridAsKeyTbl THEN defaultGetKeys(r)
  ELSE thridAsKey(r)

Key(r) ==
  LET keys == Keys(r) IN
  IF Len(keys.val) > 0 THEN [val |-> keys.val[1], err |-> keys.err]
  ELSE [val |-> fakeKey, err |-> ErrNil]

\* ------------------------------------------------------------------------
\* Encoder
\* ------------------------------------------------------------------------
RECURSIVE Bytes(_)
RECURSIVE BytesMulti(_, _)

BytesMulti(multi, i) ==
  IF i > Len(multi) THEN <<>>
  ELSE Bytes(multi[i]).val \o BytesMulti(multi, i + 1)

Bytes(r) ==
  CASE r.Type = NoKey     -> [val |-> raw2Bulk(r) \o NEW_LINE, err |-> ErrNil]
    [] r.Type = MultiResp -> [val |-> r.Raw \o BytesMulti(r.Multi, 1), err |-> ErrNil]
    [] r.Type \in {SimpleString, ErrorResp, IntegerResp, BulkResp}
                          -> [val |-> r.Raw, err |-> ErrNil]
    [] OTHER              -> [val |-> <<>>, err |-> ErrNil]

\* ------------------------------------------------------------------------
\* Inputs: RESP messages as a client writes them (redis.io/topics/protocol)
\* ------------------------------------------------------------------------
SeqsOf(S, lo, hi) == UNION {[1..n -> S] : n \in lo..hi}

RECURSIVE Concat(_)
Concat(ss) == IF Len(ss) = 0 THEN <<>> ELSE Head(ss) \o Concat(Tail(ss))

RespBulk(p)     == <<36>> \o strconvItoa(Len(p)) \o NEW_LINE \o p \o NEW_LINE
RespNullBulk    == <<36, 45, 49>> \o NEW_LINE                    \* $-1
RespNullArray   == <<42, 45, 49>> \o NEW_LINE                    \* *-1
RespArray(kids) == <<42>> \o strconvItoa(Len(kids)) \o NEW_LINE \o Concat(kids)

\* +OK, -E, :-5
RespLines == {<<43, 79, 75>> \o NEW_LINE, <<45, 69>> \o NEW_LINE,
              <<58, 45, 53>> \o NEW_LINE}

\* Bulk payloads over \r, \n and the type marker $.
Payloads  == SeqsOf({CR, LF, 36}, 0, MaxPayload)
RespBulks == {RespBulk(p) : p \in Payloads} \cup {RespNullBulk}

\* Children of the generated arrays: a null bulk, the bulk "\r\n", an
\* integer, an empty array, a null array and an array of one empty bulk.
RespKids == {RespNullBulk, RespBulk(NEW_LINE), <<58, 45, 53>> \o NEW_LINE,
             RespArray(<<>>), RespNullArray, RespArray(<<RespBulk(<<>>)>>)}
RespArrays == {RespArray(k) : k \in SeqsOf(RespKids, 0, MaxKids)} \cup {RespNullArray}

RespMsgs == RespLines \cup RespBulks \cup RespArrays

\* Messages that are put one after the other on one stream.
StreamMsgs == {RespNullBulk, RespNullArray, RespBulk(NEW_LINE), RespBulk(<<36, 52>>),
               RespBulk(<<>>), <<43, 79, 75>> \o NEW_LINE,
               RespArray(<<RespNullArray, RespBulk(<<42>>)>>)}

\* ------------------------------------------------------------------------
\* State
\* ------------------------------------------------------------------------
VARIABLES
  input,     \* what was put on the stream (never changes)
  reader,    \* the bytes the bufio.Reader has not handed out yet
  parsed,    \* the nodes the Parse calls so far returned, in call order
  err,       \* the error of the last Parse call
  btoiRet,   \* the result of Btoi on input.b
  opRet,     \* the results of Op, Keys, Key and Bytes on the last node
  keysRet,
  keyRet,
  bytesRet

vars == <<input, reader, parsed, err, btoiRet, opRet, keysRet, keyRet, bytesRet>>

NotCalled == [called |-> FALSE, val |-> <<>>, err |-> ErrNil]
Returned(r) == [called |-> TRUE, val |-> r.val, err |-> r.err]

Input(kind, msgs, nodes, b, plain) ==
  [kind |-> kind, msgs |-> msgs, nodes |-> nodes, b |-> b, plain |-> plain]

InitWith(inputs) ==
  /\ input \in inputs
  /\ reader = Concat(input.msgs)
  /\ parsed = <<>>
  /\ err = ErrNil
  /\ btoiRet = NotCalled
  /\ opRet = NotCalled
  /\ keysRet = NotCalled
  /\ keyRet = NotCalled
  /\ bytesRet = NotCalled

\* ------------------------------------------------------------------------
\* Operations
\* ------------------------------------------------------------------------
\* One Parse call on the connection's reader.  After an error the stream
\* position is undefined and the connection is closed: no further call.
ParseCall ==
  /\ err = ErrNil
  /\ LET p == Parse(reader) IN
       /\ reader' = p.rest
       /\ err' = p.err
       /\ parsed' = IF p.err = ErrNil THEN Append(parsed, p.resp) ELSE parsed
  /\ opRet' = NotCalled
  /\ keysRet' = NotCalled
  /\ keyRet' = NotCalled
  /\ bytesRet' = NotCalled
  /\ UNCHANGED <<input, btoiRet>>

Last == parsed[Len(parsed)]

OpCall ==
  /\ Len(parsed) > 0
  /\ ~opRet.called
  /\ opRet' = Returned(Op(Last))
  /\ UNCHANGED <<input, reader, parsed, err, btoiRet, keysRet, keyRet, bytesRet>>

KeysCall ==
  /\ Len(parsed) > 0
  /\ ~keysRet.called
  /\ keysRet' = Returned(Keys(Last))
  /\ UNCHANGED <<input, reader, parsed, err, btoiRet, opRet, keyRet, bytesRet>>

KeyCall ==
  /\ Len(parsed) > 0
  /\ ~keyRet.called
  /\ keyRet' = Returned(Key(Last))
  /\ UNCHANGED <<input, reader, parsed, err, btoiRet, opRet, keysRet, bytesRet>>

BytesCall ==
  /\ Len(parsed) > 0
  /\ ~bytesRet.called
  /\ bytesRet' = Returned(Bytes(Last))
  /\ UNCHANGED <<input, reader, parsed, err, btoiRet, opRet, keysRet, keyRet>>

BtoiCall ==
  /\ ~btoiRet.called
  /\ btoiRet' = Returned(Btoi(input.b))
  /\ UNCHANGED <<input, reader, parsed, err, opRet, keysRet, keyRet, bytesRet>>

\* ------------------------------------------------------------------------
\* Btoi on byte strings over - / 0 5 9 a and \r
\* ------------------------------------------------------------------------
BtoiInputs ==
  {Input("btoi", <<>>, <<>>, b, FALSE) : b \in SeqsOf({45, 47, 48, 53, 57, 97, CR}, 0, MaxDigits)}

InitBtoi == InitWith(BtoiInputs)
NextBtoi == BtoiCall
SpecBtoi == InitBtoi /\ [][NextBtoi]_vars

\* ------------------------------------------------------------------------
\* Decoding and re-encoding streams of valid messages
\* ------------------------------------------------------------------------
StreamInputs ==
  {Input("stream", <<m>>, <<>>, <<>>, FALSE) : m \in RespMsgs}
  \cup {Input("stream", ms, <<>>, <<>>, FALSE) : ms \in SeqsOf(StreamMsgs, 2, MaxMsgs)}

InitCodec == InitWith(StreamInputs)
NextCodec == ParseCall \/ BytesCall
SpecCodec == InitCodec /\ [][NextCodec]_vars

\* ------------------------------------------------------------------------
\* Properties of Btoi
\* ------------------------------------------------------------------------
IsDigit(c) == c >= 48 /\ c <= 57

\* An optional '-' followed by one or more ASCII digits.
UnsignedPart(b) == IF Len(b) > 0 /\ b[1] = 45 THEN Tail(b) ELSE b
WellFormedNumber(b) ==
  /\ Len(UnsignedPart(b)) > 0
  /\ \A i \in 1..Len(UnsignedPart(b)) : IsDigit(UnsignedPart(b)[i])

\* A byte that is neither a digit nor a leading '-'.
HasNonDigit(b) == \E i \in 1..Len(b) : ~IsDigit(b[i]) /\ ~(i = 1 /\ b[i] = 45)

RECURSIVE DecVal(_)
DecVal(d) ==
  IF Len(d) = 0 THEN 0
  ELSE 10 * DecVal(SubSeq(d, 1, Len(d) - 1)) + (d[Len(d)] - 48)

Denoted(b) == IF b[1] = 45 THEN -DecVal(Tail(b)) ELSE DecVal(b)

\* C4: Btoi returns an error for every input holding a byte that is not an
\* ASCII digit (other than one leading '-') and for the input "-", and returns
\* the denoted signed integer for an optional '-' followed by digits.
C4_BtoiContract ==
  btoiRet.called =>
    /\ (HasNonDigit(input.b) \/ input.b = <<45>>) => btoiRet.err # ErrNil
    /\ WellFormedNumber(input.b) =>
         btoiRet.err = ErrNil /\ btoiRet.val = Denoted(input.b)

\* ------------------------------------------------------------------------
\* Properties of decoding and re-encoding valid messages
\* ------------------------------------------------------------------------
\* C3: round trip.  Parse succeeds on every valid message of the stream (the
\* only error is the end of the stream after the last message) and Bytes of
\* the node it returned is the message, byte for byte.
C3_RoundTrip ==
  /\ Len(parsed) <= Len(input.msgs)
  /\ err # ErrNil => Len(parsed) = Len(input.msgs)
  /\ bytesRet.called =>
       bytesRet.err = ErrNil /\ bytesRet.val = input.msgs[Len(parsed)]

\* A nested array holding a null array and a bulk was decoded and re-encoded.
C3_Witness ==
  /\ bytesRet.called
  /\ input.msgs[Len(parsed)] = RespArray(<<RespNullArray, RespBulk(<<42>>)>>)
  /\ Len(parsed[Len(parsed)].Multi) = 2

\* C10: successive Parse calls on a stream m1..mk succeed, return the trees
\* of m1..mk in order, and each consumes exactly its own message: after n
\* calls the reader holds m(n+1)..mk.
C10_OrderedConsumption ==
  /\ Len(parsed) <= Len(input.msgs)
  /\ err # ErrNil => Len(parsed) = Len(input.msgs) /\ err = ErrEOF
  /\ err = ErrNil =>
       reader = Concat(SubSeq(input.msgs, Len(parsed) + 1, Len(input.msgs)))
  /\ \A j \in 1..Len(parsed) : parsed[j] = Parse(input.msgs[j]).resp

\* A null bulk followed by the bulk "\r\n": both read, nothing left over.
C10_Witness ==
  /\ Len(input.msgs) >= 2
  /\ Len(parsed) = Len(input.msgs)
  /\ input.msgs[1] = RespBulk(NEW_LINE)
  /\ input.msgs[2] = RespNullBulk
  /\ parsed[1].Raw = RespBulk(NEW_LINE)
  /\ reader = <<>>

\* ------------------------------------------------------------------------
\* Key extraction on decoded commands
\* ------------------------------------------------------------------------
\* A child of a command: a bulk with payload p, a null bulk, or an integer.
BulkNode(p) == [k |-> "bulk", p |-> p]
NullNode    == [k |-> "null", p |-> <<>>]
IntNode     == [k |-> "int", p |-> <<53>>]

Wire(n) == CASE n.k = "bulk" -> RespBulk(n.p)
             [] n.k = "null" -> RespNullBulk
             [] OTHER        -> <<58>> \o n.p \o NEW_LINE

WireAll(nodes) == [i \in 1..Len(nodes) |-> Wire(nodes[i])]

SET  == <<83, 69, 84>>
PING == <<80, 73, 78, 71>>
eval == <<101, 118, 97, 108>>
foo  == <<102, 111, 111>>
bar  == <<98, 97, 114>>
keyA == <<107, 101, 121, 65>>
keyB == <<107, 101, 121, 66>>
arg1 == <<97, 114, 103, 49>>

\* Names and arguments: empty, plain, and holding \r or \n.
NameNodes == {BulkNode(n) : n \in {SET, PING, eval} \cup thridAsKeyTbl}
               \cup {NullNode, IntNode}
ArgNodes  == {BulkNode(p) : p \in {<<>>, foo, bar, <<CR>>, <<LF, 97>>}}
               \cup {NullNode, IntNode}

\* The third child of a third-argument command: numKeys 0, 1, 2, -1, or "x".
NumKeysNodes == {BulkNode(p) : p \in {<<48>>, <<49>>, <<50>>, <<45, 49>>, <<120>>}}
                  \cup {IntNode}
KeyNodes     == {BulkNode(keyA), BulkNode(keyB), BulkNode(arg1)}

\* The inline form of a command: its payloads joined by single spaces.
RECURSIVE Join(_, _)
Join(toks, gap) ==
  IF Len(toks) = 0 THEN <<>>
  ELSE IF Len(toks) = 1 THEN toks[1]
  ELSE toks[1] \o gap \o Join(Tail(toks), gap)

InlineOk(nodes) ==
  /\ Len(nodes) > 0
  /\ \A i \in 1..Len(nodes) :
       /\ nodes[i].k = "bulk"
       /\ Len(nodes[i].p) > 0
       /\ \A j \in 1..Len(nodes[i].p) : ~IsSpace(nodes[i].p[j])
  /\ IsLetter(nodes[1].p[1])

InlineLine(nodes) == Join([i \in 1..Len(nodes) |-> nodes[i].p], <<32>>) \o NEW_LINE

CmdNodes ==
  {<<n>> \o a : n \in NameNodes, a \in SeqsOf(ArgNodes, 0, MaxArgs)}
  \cup {<<BulkNode(n), BulkNode(<<115>>), c>> \o ks :
          n \in thridAsKeyTbl, c \in NumKeysNodes, ks \in SeqsOf(KeyNodes, 1, MaxKeys)}

CmdInputs ==
  {Input("cmd", <<RespArray(WireAll(ns))>>, ns, <<>>, FALSE) : ns \in CmdNodes}
  \cup {Input("cmd", <<InlineLine(ns)>>, ns, <<>>, TRUE) : ns \in {c \in CmdNodes : InlineOk(c)}}
  \cup {Input("value", <<m>>, <<>>, <<>>, FALSE) :
          m \in {RespBulk(foo), <<58, 53>> \o NEW_LINE, RespNullArray, RespArray(<<>>)}}

InitCmd == InitWith(CmdInputs)
NextCmd == ParseCall \/ OpCall \/ KeysCall \/ KeyCall
SpecCmd == InitCmd /\ [][NextCmd]_vars

IsCmd == input.kind = "cmd" /\ input.nodes[1].k = "bulk"
AllBulks(nodes, from) == \A i \in from..Len(nodes) : nodes[i].k = "bulk"
PayloadsFrom(nodes, from, n) == [i \in 1..n |-> nodes[from + i - 1].p]
Min(a, b) == IF a < b THEN a ELSE b

\* C1: for a ZINTERSTORE/ZUNIONSTORE/EVAL/EVALSHA command with at least 4
\* children whose third child is a bulk holding the decimal integer numKeys
\* (here numKeys >= 1, the command in multi-bulk form), Keys returns the payloads of the children from index 3
\* on, in order, at most numKeys of them.
C1_ThirdArgKeys ==
  (/\ keysRet.called
   /\ IsCmd
   /\ ~input.plain
   /\ input.nodes[1].p \in thridAsKeyTbl
   /\ Len(input.nodes) >= 4
   /\ AllBulks(input.nodes, 3)
   /\ WellFormedNumber(input.nodes[3].p)
   /\ Denoted(input.nodes[3].p) >= 1)
  => /\ keysRet.err = ErrNil
     /\ keysRet.val = PayloadsFrom(input.nodes, 4,
                        Min(Denoted(input.nodes[3].p), Len(input.nodes) - 3))

\* C5: whenever Keys returns an error on a value, Key on the same value
\* returns a non-nil error too.
C5_KeyErrorsPropagate ==
  (keysRet.called /\ keyRet.called /\ keysRet.err # ErrNil) => keyRet.err # ErrNil

\* C7: default strategy.  For a decoded command whose name is not in the
\* third-argument table and whose children are all non-null bulks, Keys
\* returns the payload of every child after the name, in order, each exactly
\* the bulk's content bytes.
C7_DefaultKeys ==
  (/\ keysRet.called
   /\ IsCmd
   /\ input.nodes[1].p \notin thridAsKeyTbl
   /\ AllBulks(input.nodes, 1))
  => /\ keysRet.err = ErrNil
     /\ keysRet.val = PayloadsFrom(input.nodes, 2, Len(input.nodes) - 1)

\* SET with the arguments "\na" and "" gave exactly those two payloads.
C7_Witness ==
  /\ keysRet.called
  /\ input.kind = "cmd"
  /\ input.nodes = <<BulkNode(SET), BulkNode(<<LF, 97>>), BulkNode(<<>>)>>
  /\ keysRet.val = <<<<LF, 97>>, <<>>>>

\* C8: Key returns "fakeKey" with no error for a command with no argument
\* after its name under the default strategy and for a third-argument command
\* with fewer than 4 children, for which Keys returns <<"fakeKey">> whatever
\* its children are.
C8_FallbackKey ==
  /\ (/\ keyRet.called
      /\ IsCmd
      /\ \/ input.nodes[1].p \notin thridAsKeyTbl /\ Len(input.nodes) = 1
         \/ input.nodes[1].p \in thridAsKeyTbl /\ Len(input.nodes) < 4)
     => keyRet.val = fakeKey /\ keyRet.err = ErrNil
  /\ (/\ keysRet.called
      /\ IsCmd
      /\ input.nodes[1].p \in thridAsKeyTbl
      /\ Len(input.nodes) < 4)
     => keysRet.val = <<fakeKey>> /\ keysRet.err = ErrNil

\* EVAL with a null bulk and an integer after it: Keys and Key both answered.
C8_Witness ==
  /\ keyRet.called
  /\ keysRet.called
  /\ input.kind = "cmd"
  /\ input.nodes = <<BulkNode(EVAL), NullNode, IntNode>>
  /\ keyRet.val = fakeKey

\* ------------------------------------------------------------------------
\* Inline command lines and the arrays decoded from them
\* ------------------------------------------------------------------------
\* PING, a, b and "a\t".
Tokens == {PING, <<97>>, <<98>>, <<97, 9>>}

Spaces(n) == [i \in 1..n |-> 32]

\* The tokens joined by gaps of `gap` spaces, `trail` spaces before \r\n.
TokenLine(toks, gap, trail) == Join(toks, Spaces(gap)) \o Spaces(trail) \o NEW_LINE

TokenNodes(toks) == [i \in 1..Len(toks) |-> BulkNode(toks[i])]

InlineInputs ==
  {Input("inline", <<TokenLine(t, g, tr)>>, TokenNodes(t), <<>>, g = 1 /\ tr = 0) :
     t \in SeqsOf(Tokens, 1, MaxTokens), g \in 1..MaxGap, tr \in 0..1}
  \cup {Input("multi", <<RespArray(WireAll(TokenNodes(t)))>>, TokenNodes(t), <<>>, FALSE) :
     t \in SeqsOf(Tokens, 1, MaxTokens)}
  \cup {Input("multi", <<m>>, <<>>, <<>>, FALSE) : m \in RespArrays}

InitInline == InitWith(InlineInputs)
NextInline == ParseCall \/ BytesCall
SpecInline == InitInline /\ [][NextInline]_vars

\* The count written in an Array node's header line *<count>\r\n.
HeaderCount(raw) == Denoted(Slice(raw, 1, Len(raw) - 2))

RECURSIVE CountOk(_)
CountOk(r) ==
  r.Type = MultiResp =>
    /\ IF HeaderCount(r.Raw) >= 0 THEN Len(r.Multi) = HeaderCount(r.Raw)
       ELSE Len(r.Multi) = 0
    /\ \A i \in 1..Len(r.Multi) : CountOk(r.Multi[i])

\* C2: every Array node a successful Parse returns, decoded from a multi-bulk
\* header or synthesized from an inline line with any number of spaces, has
\* len(Multi) equal to the count in its Raw header when that is non-negative,
\* and an empty Multi when it is negative.
C2_ArrayCount == \A j \in 1..Len(parsed) : CountOk(parsed[j])

\* The tree Parse returns for the multi-bulk encoding of the input's tokens.
MultiBulkForm == RespArray(WireAll(input.nodes))
MultiBulkTree == Parse(MultiBulkForm).resp

TrimmedTokens ==
  \A i \in 1..Len(input.nodes) :
    ~IsSpace(input.nodes[i].p[1]) /\ ~IsSpace(input.nodes[i].p[Len(input.nodes[i].p)])

\* C9 as stated: for every inline line of non-empty tokens separated by
\* single spaces, Parse returns the tree it returns for the multi-bulk
\* encoding of the same tokens, and Bytes gives the same result on both.
C9_InlineEquivalence ==
  (input.kind = "inline" /\ input.plain) =>
    /\ err # ErrNil => Len(parsed) = 1
    /\ Len(parsed) >= 1 => parsed[1] = MultiBulkTree
    /\ bytesRet.called => bytesRet.val = MultiBulkForm

\* C9 amended: the same, for tokens that neither begin nor end with a white
\* space byte (strings.TrimSpace strips those from each token).
C9_InlineEquivalenceTrimmed ==
  (input.kind = "inline" /\ input.plain /\ TrimmedTokens) =>
    /\ err # ErrNil => Len(parsed) = 1
    /\ Len(parsed) >= 1 => parsed[1] = MultiBulkTree
    /\ bytesRet.called => bytesRet.val = MultiBulkForm

\* The line "PING a\r\n" was decoded and re-encoded.
C9_Witness ==
  /\ input.kind = "inline"
  /\ input.plain
  /\ input.msgs = <<PING \o <<32, 97>> \o NEW_LINE>>
  /\ Len(parsed) = 1
  /\ Len(parsed[1].Multi) = 2
  /\ bytesRet.called

\* ------------------------------------------------------------------------
\* Bulks with a truncated or malformed terminator
\* ------------------------------------------------------------------------
abc == <<97, 98, 99>>

\* $<n>\r\n, the n payload bytes, and a tail over \r \n X Y; then the
\* stream ends.
BulkInputs ==
  {Input("bulk", <<<<36>> \o strconvItoa(Len(p)) \o NEW_LINE \o p \o t>>,
         <<BulkNode(p)>>, t, FALSE) :
     p \in {<<>>, abc}, t \in SeqsOf({CR, LF, 88, 89}, 0, MaxTail)}

InitBulk == InitWith(BulkInputs)
NextBulk == ParseCall
SpecBulk == InitBulk /\ [][NextBulk]_vars

TruncationErrors == {ErrEOF, ErrUnexpectedEOF}
ProtocolErrors   == {ErrPacket, ErrJust0, ErrProtocol, ErrNumber}

ParseReturned == err # ErrNil \/ Len(parsed) > 0

\* C6: reading a bulk of length n, Parse fails with the truncated-stream
\* error when the stream ends after the payload before the terminator is
\* complete, and fails with a protocol error (not a truncation error)
\* whenever the two bytes after the payload are not "\r\n", whether or not
\* more bytes follow; in both cases no node is returned.
C6_BulkTerminator ==
  ParseReturned =>
    /\ input.b \in {<<>>, <<CR>>} =>
         parsed = <<>> /\ err \in TruncationErrors
    /\ (Len(input.b) >= 2 /\ SubSeq(input.b, 1, 2) # NEW_LINE) =>
         parsed = <<>> /\ err \in ProtocolErrors

====
